---- MODULE Spec2Model ----
(***************************************************************************)
(* A model of the jars crate: the descriptor / signature grammar parser    *)
(* (src/src/descriptor.rs), the pattern builder (src/src/pat.rs), the      *)
(* match engine and the search driver (src/src/search.rs) and the class    *)
(* iterator over an archive (src/src/jar.rs).                              *)
(*                                                                         *)
(* Texts are sequences of one-character strings, so that a parser has to   *)
(* walk them the way the code walks a &str.  Names (class names, object    *)
(* names of descriptors) are texts as well.                                *)
(***************************************************************************)
EXTENDS Naturals, Sequences, FiniteSets

VARIABLES
    text,       \* parser machine: the input text handed to a parse function
    origin,     \* parser machine: the signature the text encodes, or NoSig
    parsed,     \* parser machine: the last parse call and what it returned
    cls,        \* match machine: the class record under test
    pat,        \* match machine: the ClassPat being built
    matched,    \* match machine: the last check_class result, or NotRun
    archive,    \* search machine: the entries of the archive, by position
    pats,       \* search machine: the pattern array handed to the search
    index,      \* search machine: ClassIter.index
    results,    \* search machine: search_many's results vector
    many,       \* search machine: what search_many returned, or Running
    outcome     \* search machine: what search_exact returned, or Running

vars == <<text, origin, parsed, cls, pat, matched,
          archive, pats, index, results, many, outcome>>

parseVars == <<text, origin, parsed>>
matchVars == <<cls, pat, matched>>
searchVars == <<archive, pats, index, results, many, outcome>>

-----------------------------------------------------------------------------
(* Bounds of the model.                                                    *)

MaxLen == 4         \* longest arbitrary text handed to a parser
MaxNodes == 4       \* most nodes of a signature whose encoding is parsed
MaxMembers == 2     \* most members of a class record / of a class pattern
MaxEntries == 3     \* most entries of an archive
MaxPats == 2        \* most patterns handed to a search

-----------------------------------------------------------------------------
(* Option and Result values.                                               *)

None == [tag |-> "None"]
Some(v) == [tag |-> "Some", val |-> v]
Ok(v) == [tag |-> "Ok", val |-> v]
Err(e) == [tag |-> "Err", err |-> e]

-----------------------------------------------------------------------------
(* Texts and the &str operations the parsers use.                          *)

\* A character that takes more than one byte in UTF-8: index 1 of a text that
\* starts with it is not a character boundary.
WideChars == {"u+00E9"}

is_char_boundary_1(str) == str = <<>> \/ Head(str) \notin WideChars

\* The position of the first occurrence of ch in str, or 0.
RECURSIVE FindFrom(_, _, _)
FindFrom(str, ch, i) ==
    IF i > Len(str) THEN 0
    ELSE IF str[i] = ch THEN i
    ELSE FindFrom(str, ch, i + 1)

\* str::split_once(ch): the text before and after the first ch.
split_once(str, ch) ==
    LET i == FindFrom(str, ch, 1) IN
    IF i = 0 THEN None
    ELSE Some([before |-> SubSeq(str, 1, i - 1),
               after |-> SubSeq(str, i + 1, Len(str))])

\* str::strip_prefix(ch).
strip_prefix(str, ch) ==
    IF str # <<>> /\ Head(str) = ch THEN Some(Tail(str)) ELSE None

\* str::strip_suffix(suffix): the text without this suffix, looked for at
\* the END of the text.
strip_suffix(str, suffix) ==
    LET n == Len(str)
        k == Len(suffix) IN
    IF n >= k /\ SubSeq(str, n - k + 1, n) = suffix
    THEN Some(SubSeq(str, 1, n - k))
    ELSE None

\* str.as_bytes().first() == Some(&ch)
first_is(str, ch) == str # <<>> /\ Head(str) = ch

-----------------------------------------------------------------------------
(* descriptor.rs: Descriptor, DescriptorError.                             *)

Primitive(t) == [tag |-> t]
Array(d) == [tag |-> "Array", elem |-> d]
Object(name) == [tag |-> "Object", name |-> name]

EndOfInput == [tag |-> "EndOfInput"]
InvalidPrefix == [tag |-> "InvalidPrefix"]
MismatchedChar(ch) == [tag |-> "MismatchedChar", char |-> ch]

\* The primitive variant of a prefix letter (the match arms Z B S I J F D C).
PrimitiveOf(ch) ==
    CASE ch = "Z" -> "Boolean"
      [] ch = "B" -> "Byte"
      [] ch = "S" -> "Short"
      [] ch = "I" -> "Integer"
      [] ch = "J" -> "Long"
      [] ch = "F" -> "Float"
      [] ch = "D" -> "Double"
      [] ch = "C" -> "Char"

PrimitiveLetters == {"Z", "B", "S", "I", "J", "F", "D", "C"}

\* Descriptor::consume(&mut str): the result and the text left in str.
RECURSIVE Descriptor_consume(_)
Descriptor_consume(str) ==
    IF str = <<>> THEN [res |-> Err(EndOfInput), rem |-> str]
    ELSE IF ~is_char_boundary_1(str) THEN [res |-> Err(InvalidPrefix), rem |-> str]
    ELSE
        LET char == Head(str)
            rest == Tail(str) IN
        IF char = "[" THEN
            LET r == Descriptor_consume(rest) IN
            IF r.res.tag = "Err" THEN r
            ELSE [res |-> Ok(Array(r.res.val)), rem |-> r.rem]
        ELSE IF char \in PrimitiveLetters THEN
            [res |-> Ok(Primitive(PrimitiveOf(char))), rem |-> rest]
        ELSE IF char = "L" THEN
            LET s == split_once(rest, ";") IN
            IF s.tag = "None" THEN [res |-> Err(MismatchedChar(";")), rem |-> rest]
            ELSE [res |-> Ok(Object(s.val.before)), rem |-> s.val.after]
        ELSE [res |-> Err(InvalidPrefix), rem |-> rest]

\* Descriptor::parse(str): consume's result; the text left over is dropped.
Descriptor_parse(str) == Descriptor_consume(str).res

-----------------------------------------------------------------------------
(* descriptor.rs: MethodDescriptor.                                        *)

MethodDescriptor_new(return_type, param_types) ==
    [return_type |-> return_type, param_types |-> param_types]

\* The while loop of MethodDescriptor::parse: descriptors are consumed until
\* the text starts with ")".
RECURSIVE ParamLoop(_, _)
ParamLoop(rem, params) ==
    IF first_is(rem, ")") THEN [res |-> Ok(params), rem |-> rem]
    ELSE
        LET r == Descriptor_consume(rem) IN
        IF r.res.tag = "Err" THEN [res |-> r.res, rem |-> r.rem]
        ELSE ParamLoop(r.rem, Append(params, r.res.val))

MethodDescriptor_parse(str) ==
    LET p == strip_prefix(str, "(") IN
    IF p.tag = "None" THEN Err(MismatchedChar("("))
    ELSE
        LET l == ParamLoop(p.val, <<>>) IN
        IF l.res.tag = "Err" THEN l.res
        ELSE
            LET rem == Tail(l.rem) IN
            IF first_is(rem, "V") THEN Ok(MethodDescriptor_new(None, l.res.val))
            ELSE
                LET r == Descriptor_consume(rem) IN
                IF r.res.tag = "Err" THEN r.res
                ELSE Ok(MethodDescriptor_new(Some(r.res.val), l.res.val))

-----------------------------------------------------------------------------
(* descriptor.rs: Signature.                                               *)

SigDescriptor(d) == [tag |-> "Descriptor", desc |-> d]
Parametrized(name, arguments) ==
    [tag |-> "Parametrized", name |-> name, arguments |-> arguments]

\* Signature::consume(&mut str).  ArgLoop is its while loop, which runs on the
\* local rem; str itself is only assigned after the loop.
RECURSIVE Signature_consume(_)
RECURSIVE ArgLoop(_, _)
ArgLoop(rem, arguments) ==
    IF first_is(rem, ">") THEN [res |-> Ok(arguments), rem |-> rem]
    ELSE
        LET r == Signature_consume(rem) IN
        IF r.res.tag = "Err" THEN [res |-> r.res, rem |-> r.rem]
        ELSE ArgLoop(r.rem, Append(arguments, r.res.val))

Signature_consume(str) ==
    LET p == strip_prefix(str, "L")
        s == IF p.tag = "None" THEN None ELSE split_once(p.val, "<") IN
    IF s.tag = "Some" THEN
        LET l == ArgLoop(s.val.after, <<>>) IN
        IF l.res.tag = "Err" THEN [res |-> l.res, rem |-> str]
        ELSE
            LET t == strip_suffix(l.rem, <<">", ";">>) IN
            IF t.tag = "None" THEN [res |-> Err(MismatchedChar(">")), rem |-> str]
            ELSE [res |-> Ok(Parametrized(s.val.before, l.res.val)), rem |-> t.val]
    ELSE
        LET r == Descriptor_consume(str) IN
        IF r.res.tag = "Err" THEN r
        ELSE [res |-> Ok(SigDescriptor(r.res.val)), rem |-> r.rem]

Signature_parse(str) == Signature_consume(str).res

-----------------------------------------------------------------------------
(* The textual encoding of descriptors and signatures (the texts of        *)
(* tests::parse_descriptors and tests::parse_signatures): the inputs of    *)
(* the parser machine are built with it.                                   *)

LetterOf(t) ==
    CASE t = "Boolean" -> "Z"
      [] t = "Byte" -> "B"
      [] t = "Short" -> "S"
      [] t = "Integer" -> "I"
      [] t = "Long" -> "J"
      [] t = "Float" -> "F"
      [] t = "Double" -> "D"
      [] t = "Char" -> "C"

RECURSIVE EncodeDescriptor(_)
EncodeDescriptor(d) ==
    IF d.tag = "Array" THEN <<"[">> \o EncodeDescriptor(d.elem)
    ELSE IF d.tag = "Object" THEN <<"L">> \o d.name \o <<";">>
    ELSE <<LetterOf(d.tag)>>

RECURSIVE EncodeSignature(_)
RECURSIVE EncodeArguments(_)
EncodeArguments(arguments) ==
    IF arguments = <<>> THEN <<>>
    ELSE EncodeSignature(Head(arguments)) \o EncodeArguments(Tail(arguments))

EncodeSignature(s) ==
    IF s.tag = "Descriptor" THEN EncodeDescriptor(s.desc)
    ELSE <<"L">> \o s.name \o <<"<">> \o EncodeArguments(s.arguments) \o <<">", ";">>

-----------------------------------------------------------------------------
(* Inputs of the parser machine.                                           *)

\* The characters arbitrary input texts are made of.
ParseChars == {"I", "[", "L", "a", ";", "(", ")", "V", "u+00E9"}

RECURSIVE TextsOfLen(_)
TextsOfLen(n) ==
    IF n = 0 THEN {<<>>}
    ELSE {<<c>> \o t : c \in ParseChars, t \in TextsOfLen(n - 1)}

Texts == UNION {TextsOfLen(n) : n \in 0..MaxLen}

\* The plain descriptors and the names signatures are built from.
LeafDescriptors ==
    {Primitive("Integer"), Object(<<"a">>), Array(Primitive("Byte"))}

SigNames == {<<"a">>}

\* The signatures of exactly n nodes (a plain descriptor is one node, a
\* parametrized signature one node more than its arguments), each parametrized
\* one with at least one argument.
RECURSIVE SigsOfSize(_)
RECURSIVE ForestsOfSize(_)
SigsOfSize(n) ==
    IF n = 1 THEN {SigDescriptor(d) : d \in LeafDescriptors}
    ELSE {Parametrized(nm, f) : nm \in SigNames, f \in ForestsOfSize(n - 1)}

ForestsOfSize(n) ==
    IF n = 0 THEN {<<>>}
    ELSE UNION {{<<s>> \o f : s \in SigsOfSize(m), f \in ForestsOfSize(n - m)} :
                m \in 1..n}

Sigs == UNION {SigsOfSize(n) : n \in 1..MaxNodes}

NoSig == [tag |-> "NoSig"]
NotRun == [tag |-> "NotRun"]

-----------------------------------------------------------------------------
(* The parser machine: a text is chosen, then the parse functions are      *)
(* applied to it.                                                          *)

ParseInit ==
    /\ \/ text \in Texts /\ origin = NoSig
       \/ origin \in Sigs /\ text = EncodeSignature(origin)
    /\ parsed = NotRun

DescriptorParse ==
    /\ parsed' = [tag |-> "Ran", fn |-> "Descriptor::parse", res |-> Descriptor_parse(text)]
    /\ UNCHANGED <<text, origin>>

MethodDescriptorParse ==
    /\ parsed' = [tag |-> "Ran", fn |-> "MethodDescriptor::parse", res |-> MethodDescriptor_parse(text)]
    /\ UNCHANGED <<text, origin>>

SignatureParse ==
    /\ parsed' = [tag |-> "Ran", fn |-> "Signature::parse", res |-> Signature_parse(text)]
    /\ UNCHANGED <<text, origin>>

ParseIdle == text = <<>> /\ origin = NoSig /\ parsed = NotRun

-----------------------------------------------------------------------------
(* pat.rs: TypePat, MemberPat, ClassPat and its builder.                   *)

Any == [tag |-> "Any"]
Void == [tag |-> "Void"]
Match(d) == [tag |-> "Match", desc |-> d]

\* TypePat::class_name
class_name(tp) ==
    IF tp.tag = "Match" /\ tp.desc.tag = "Object" THEN Some(tp.desc.name) ELSE None

Method(flags, param_types, ret_type) ==
    [tag |-> "Method", flags |-> flags, param_types |-> param_types,
     ret_type |-> ret_type]

Field(flags, field_type) ==
    [tag |-> "Field", flags |-> flags, field_type |-> field_type]

\* ClassPat::default
ClassPat_default ==
    [flags |-> {}, members |-> <<>>, base |-> None, impls |-> <<>>]

\* ClassPat::interface
ClassPat_interface ==
    [ClassPat_default EXCEPT !.flags = @ \cup {"INTERFACE"}]

public(self) == [self EXCEPT !.flags = @ \cup {"PUBLIC"}]
with_base(self, base) == [self EXCEPT !.base = Some(base)]
with_impl(self, interface) == [self EXCEPT !.impls = Append(@, interface)]
with(self, member) == [self EXCEPT !.members = Append(@, member)]

-----------------------------------------------------------------------------
(* search.rs: check_type and check_class.  A class record is what the      *)
(* class-file parser hands over: access_flags, super_class (an Option),    *)
(* interfaces, methods and fields (each with access_flags and the raw      *)
(* descriptor text).                                                       *)

JavaLangObject ==
    <<"j", "a", "v", "a", "/", "l", "a", "n", "g", "/", "O", "b", "j", "e", "c", "t">>

\* The mutant of check_type: Void is taken for a wildcard.
check_type_void_any(descriptor, tp) ==
    IF tp.tag = "Any" \/ tp.tag = "Void" THEN TRUE
    ELSE IF tp.tag = "Match" /\ descriptor = tp.desc THEN TRUE
    ELSE FALSE

\* check_type: TRUE for Some(()), FALSE for None.
check_type(descriptor, tp) ==
    IF tp.tag = "Any" THEN TRUE
    ELSE IF tp.tag = "Match" /\ descriptor = tp.desc THEN TRUE
    ELSE FALSE

\* The access-flags test of check_class.
check_flags(class, cp) == cp.flags \subseteq class.access_flags

\* The mutant of check_base: without a base pattern any superclass passes.
check_base_any_super(base, super_class) ==
    IF base.tag = "None" THEN TRUE
    ELSE IF base.val = Any /\ super_class.tag = "Some" THEN TRUE
    ELSE IF super_class.tag = "Some" THEN
        LET name == class_name(base.val) IN
        name.tag = "Some" /\ name.val = super_class.val
    ELSE FALSE

\* The match on (pat.base, class.super_class) of check_class.
check_base(base, super_class) ==
    IF base.tag = "None" /\ super_class.tag = "None" THEN TRUE
    ELSE IF base.tag = "None" /\ super_class = Some(JavaLangObject) THEN TRUE
    ELSE IF base.tag = "Some" /\ base.val = Any /\ super_class.tag = "Some" THEN TRUE
    ELSE IF base.tag = "Some" /\ super_class.tag = "Some" THEN
        LET name == class_name(base.val) IN
        name.tag = "Some" /\ name.val = super_class.val
    ELSE FALSE

\* The loop over pat.impls of check_class.
check_impls(impls, interfaces) ==
    \A i \in 1..Len(impls) :
        /\ i <= Len(interfaces)
        /\ class_name(impls[i]).tag = "Some"
        /\ interfaces[i] = class_name(impls[i]).val

\* The zip loop over the parameter patterns and the parameter descriptors.
check_params(param_pats, param_types) ==
    \A i \in 1..Len(param_pats) :
        i <= Len(param_types) => check_type(param_types[i], param_pats[i])

\* The Method arm of the member loop, for the method the cursor yielded.
check_method(method, member) ==
    /\ member.flags \subseteq method.access_flags
    /\ LET d == MethodDescriptor_parse(method.descriptor) IN
       /\ d.tag = "Ok"
       /\ Len(d.val.param_types) = Len(member.param_types)
       /\ IF member.ret_type = Void /\ d.val.return_type.tag = "None" THEN TRUE
          ELSE IF d.val.return_type.tag = "Some"
               THEN check_type(d.val.return_type.val, member.ret_type)
          ELSE FALSE
       /\ check_params(member.param_types, d.val.param_types)

\* The Field arm of the member loop, for the field the cursor yielded.
check_field(field, member) ==
    /\ member.flags \subseteq field.access_flags
    /\ LET d == Descriptor_parse(field.descriptor) IN
       /\ d.tag = "Ok"
       /\ check_type(d.val, member.field_type)

\* The mutant of Exhausted: only the method cursor is looked at.
MethodsExhausted(methods, fields) == ~(Len(methods) > 0)

\* The test after the member loop: both cursors are exhausted.
Exhausted(methods, fields) == ~(Len(methods) > 0 \/ Len(fields) > 0)

\* The member loop of check_class: methods and fields are what the two
\* cursors have not yielded yet.
RECURSIVE check_members(_, _, _)
check_members(members, methods, fields) ==
    IF members = <<>> THEN Exhausted(methods, fields)
    ELSE
        LET member == Head(members) IN
        IF member.tag = "Method" THEN
            /\ methods # <<>>
            /\ check_method(Head(methods), member)
            /\ check_members(Tail(members), Tail(methods), fields)
        ELSE
            /\ fields # <<>>
            /\ check_field(Head(fields), member)
            /\ check_members(Tail(members), methods, Tail(fields))

\* check_class: TRUE for Some(()), FALSE for None.
check_class(class, cp) ==
    /\ check_flags(class, cp)
    /\ check_base(cp.base, class.super_class)
    /\ check_impls(cp.impls, class.interfaces)
    /\ check_members(cp.members, class.methods, class.fields)

-----------------------------------------------------------------------------
(* Inputs of the match machine.                                            *)

Txt_VoidNoArgs == <<"(", ")", "V">>
Txt_IntToInt == <<"(", "I", ")", "I">>
Txt_IntToVoid == <<"(", "I", ")", "V">>
Txt_Int == <<"I">>

ClassA == <<"a">>
InterfaceR == <<"r">>

MethodPool ==
    {[access_flags |-> {"PUBLIC"}, descriptor |-> Txt_VoidNoArgs],
     [access_flags |-> {"PUBLIC", "STATIC"}, descriptor |-> Txt_IntToInt],
     [access_flags |-> {}, descriptor |-> Txt_IntToVoid]}

FieldPool ==
    {[access_flags |-> {"PRIVATE"}, descriptor |-> Txt_Int]}

RECURSIVE SeqsOfLen(_, _)
SeqsOfLen(S, n) ==
    IF n = 0 THEN {<<>>}
    ELSE {<<x>> \o t : x \in S, t \in SeqsOfLen(S, n - 1)}

SeqsUpTo(S, n) == UNION {SeqsOfLen(S, k) : k \in 0..n}

ClassFile(access_flags, super_class, interfaces, methods, fields) ==
    [access_flags |-> access_flags, super_class |-> super_class,
     interfaces |-> interfaces, methods |-> methods, fields |-> fields]

\* Class records: every head (flags, superclass, interfaces) with at most one
\* method, and the plain head with every member list of up to MaxMembers.
ClassPool ==
    {ClassFile(fl, su, ifs, ms, <<>>) :
        fl \in {{"PUBLIC"}, {"PUBLIC", "INTERFACE"}},
        su \in {None, Some(JavaLangObject), Some(ClassA)},
        ifs \in {<<>>, <<InterfaceR>>},
        ms \in SeqsUpTo({[access_flags |-> {"PUBLIC"}, descriptor |-> Txt_VoidNoArgs]}, 1)}
    \cup
    {c \in {ClassFile({"PUBLIC"}, Some(JavaLangObject), <<>>, ms, fs) :
                ms \in SeqsUpTo(MethodPool, MaxMembers),
                fs \in SeqsUpTo(FieldPool, MaxMembers)} :
        Len(c.methods) + Len(c.fields) <= MaxMembers}

BasePats ==
    {Any, Void, Match(Object(ClassA)), Match(Primitive("Integer"))}

ImplPats == {Match(Object(InterfaceR)), Any}

MemberPats ==
    {Method({"PUBLIC"}, <<>>, Void),
     Method({"PUBLIC"}, <<Match(Primitive("Integer"))>>, Match(Primitive("Integer"))),
     Method({}, <<Any>>, Any),
     Method({}, <<Any>>, Void),
     Method({}, <<Void>>, Void),
     Field({}, Match(Primitive("Integer"))),
     Field({"PRIVATE"}, Any),
     Field({}, Void)}

-----------------------------------------------------------------------------
(* The match machine: a class record is chosen, a pattern is built with    *)
(* the builder, then check_class is applied.                               *)

MatchInit ==
    /\ cls \in ClassPool
    /\ pat \in {ClassPat_default, ClassPat_interface}
    /\ matched = NotRun

WithBase ==
    /\ matched = NotRun
    /\ pat.base = None
    /\ \E b \in BasePats : pat' = with_base(pat, b)
    /\ UNCHANGED <<cls, matched>>

WithImpl ==
    /\ matched = NotRun
    /\ pat.impls = <<>>
    /\ \E i \in ImplPats : pat' = with_impl(pat, i)
    /\ UNCHANGED <<cls, matched>>

With ==
    /\ matched = NotRun
    /\ Len(pat.members) < MaxMembers
    /\ \E m \in MemberPats : pat' = with(pat, m)
    /\ UNCHANGED <<cls, matched>>

CheckClass ==
    /\ matched = NotRun
    /\ matched' = [tag |-> "Ran", result |-> check_class(cls, pat)]
    /\ UNCHANGED <<cls, pat>>

MatchIdle ==
    /\ cls = ClassFile({}, None, <<>>, <<>>, <<>>)
    /\ pat = ClassPat_default
    /\ matched = NotRun

-----------------------------------------------------------------------------
(* jar.rs: the archive and ClassIter.  An archive entry has the extension  *)
(* of its name, whether zip.by_index succeeds for it, whether reading its  *)
(* bytes succeeds, and what the class-file parser makes of the bytes (a    *)
(* class record, or None for malformed bytes).                             *)

ZipEntry(ext, by_index, read, content) ==
    [ext |-> ext, by_index |-> by_index, read |-> read, content |-> content]

\* JarEntry: the bytes read from the entry at this position of the archive.
JarEntry(pos) == [pos |-> pos]

IoError == [tag |-> "IoError"]
ClassError == [tag |-> "ClassError"]
TooManyMatches(i) == [tag |-> "TooManyMatches", pattern |-> i]
PatternNotFound(i) == [tag |-> "PatternNotFound", pattern |-> i]

\* read_class: read_exact's error is returned, else the entry.
read_class(zip, pos) ==
    IF zip[pos].read = "Err" THEN Err(IoError) ELSE Ok(JarEntry(pos))

\* ClassIter::next, with self.index = idx (the code counts from 0, zip[idx + 1]
\* is the entry by_index(idx) fetches): the index it leaves and the item it
\* returns.  by_index fails past the last entry, and where the entry says so;
\* either way .ok()? ends the iteration.
RECURSIVE ClassIter_next(_, _)
ClassIter_next(zip, idx) ==
    IF idx >= Len(zip) \/ zip[idx + 1].by_index = "Err"
    THEN [index |-> idx, item |-> None]
    ELSE IF zip[idx + 1].ext = "class"
    THEN [index |-> idx + 1, item |-> Some(read_class(zip, idx + 1))]
    ELSE ClassIter_next(zip, idx + 1)

\* JarEntry::parse_without_bytecode
parse_without_bytecode(zip, entry) ==
    IF zip[entry.pos].content.tag = "None" THEN Err(ClassError)
    ELSE Ok(zip[entry.pos].content.val)

-----------------------------------------------------------------------------
(* search.rs: search_many and search_exact.                                *)

NewMatch(entry, pattern) == [entry |-> entry, pattern |-> pattern]

\* The loop over pats.iter().enumerate() of search_many, from index i on (the
\* code counts from 0): the index at which it breaks, or None.
RECURSIVE FirstMatchFrom(_, _, _)
FirstMatchFrom(class, ps, i) ==
    IF i >= Len(ps) THEN None
    ELSE IF check_class(class, ps[i + 1]) THEN Some(i)
    ELSE FirstMatchFrom(class, ps, i + 1)

\* The mutant of FirstMatch: the loop without its break, the last match wins.
RECURSIVE LastMatchFrom(_, _, _)
LastMatchFrom(class, ps, i) ==
    IF i = 0 THEN None
    ELSE IF check_class(class, ps[i]) THEN Some(i - 1)
    ELSE LastMatchFrom(class, ps, i - 1)

LastMatch(class, ps) == LastMatchFrom(class, ps, Len(ps))

FirstMatch(class, ps) == FirstMatchFrom(class, ps, 0)

\* The place of m in a vector sorted by pattern, behind the equal keys.
RECURSIVE InsertByKey(_, _)
InsertByKey(sorted, m) ==
    IF sorted = <<>> THEN <<m>>
    ELSE IF Head(sorted).pattern <= m.pattern
    THEN <<Head(sorted)>> \o InsertByKey(Tail(sorted), m)
    ELSE <<m>> \o sorted

RECURSIVE SortFrom(_, _)
SortFrom(sorted, rest) ==
    IF rest = <<>> THEN sorted
    ELSE SortFrom(InsertByKey(sorted, Head(rest)), Tail(rest))

\* The mutant of sort_by_key: the vector is left as search_many filled it.
Unsorted(matches) == matches

\* matches.sort_by_key(|mat| mat.pattern): a stable sort.
sort_by_key(matches) == SortFrom(<<>>, matches)

\* matches.iter().enumerate().find(|(i, m)| *i != m.pattern), from position i
\* on (counted from 0).
RECURSIVE FindDivergence(_, _)
FindDivergence(matches, i) ==
    IF i >= Len(matches) THEN None
    ELSE IF i # matches[i + 1].pattern THEN Some([pat |-> i, mat |-> matches[i + 1]])
    ELSE FindDivergence(matches, i + 1)

\* The mutant of Diagnose: the comparison the other way round.
DiagnoseSwapped(d) ==
    IF d.pat < d.mat.pattern THEN Err(TooManyMatches(d.mat.pattern))
    ELSE Err(PatternNotFound(d.pat))

\* The error search_exact returns for a divergent position.
Diagnose(d) ==
    IF d.pat > d.mat.pattern THEN Err(TooManyMatches(d.mat.pattern))
    ELSE Err(PatternNotFound(d.pat))

\* <[JarEntry; N]>::from_iter: an array of N entries exists only when the
\* iterator yields N of them; otherwise no value is returned to the caller
\* (the call does not come back with a Result).
Panic == [tag |-> "Panic"]

from_iter(entries, N) ==
    IF Len(entries) = N THEN Ok(entries) ELSE Panic

\* search_exact, from the result of its search_many call on.
search_exact_of(res, N) ==
    IF res.tag = "Err" THEN res
    ELSE
        LET matches == sort_by_key(res.val)
            d == FindDivergence(matches, 0) IN
        IF d.tag = "Some" THEN Diagnose(d.val)
        ELSE from_iter([i \in 1..Len(matches) |-> matches[i].entry], N)

-----------------------------------------------------------------------------
(* Inputs of the search machine.                                           *)

PublicVoidMethod == [access_flags |-> {"PUBLIC"}, descriptor |-> Txt_VoidNoArgs]

SearchClasses ==
    {ClassFile({"PUBLIC"}, Some(JavaLangObject), <<>>, <<>>, <<>>),
     ClassFile({"PUBLIC"}, Some(JavaLangObject), <<>>, <<PublicVoidMethod>>, <<>>)}

EntryPool ==
    {ZipEntry("class", "Ok", "Ok", Some(c)) : c \in SearchClasses}
    \cup
    {ZipEntry("txt", "Ok", "Ok", None),
     ZipEntry("class", "Err", "Ok", None),
     ZipEntry("class", "Ok", "Err", None),
     ZipEntry("class", "Ok", "Ok", None)}

PatPool ==
    {ClassPat_default,
     public(ClassPat_default),
     with(ClassPat_default, Method({"PUBLIC"}, <<>>, Void))}

Running == [tag |-> "Running"]

-----------------------------------------------------------------------------
(* The search machine: search_exact on an archive.  SearchManyStep is one  *)
(* turn of search_many's loop over jar.classes(); SearchExact is the rest  *)
(* of search_exact once search_many has returned.                          *)

SearchInit ==
    /\ archive \in SeqsUpTo(EntryPool, MaxEntries)
    /\ pats \in SeqsUpTo(PatPool, MaxPats)
    /\ index = 0
    /\ results = <<>>
    /\ many = Running
    /\ outcome = Running

SearchManyStep ==
    /\ many = Running
    /\ LET n == ClassIter_next(archive, index) IN
       /\ index' = n.index
       /\ IF n.item.tag = "None" THEN
              /\ many' = Ok(results)
              /\ UNCHANGED results
          ELSE IF n.item.val.tag = "Err" THEN
              /\ many' = n.item.val
              /\ UNCHANGED results
          ELSE
              LET entry == n.item.val.val
                  class == parse_without_bytecode(archive, entry) IN
              IF class.tag = "Err" THEN
                  /\ many' = class
                  /\ UNCHANGED results
              ELSE
                  LET i == FirstMatch(class.val, pats) IN
                  /\ results' = IF i.tag = "Some"
                                THEN Append(results, NewMatch(entry, i.val))
                                ELSE results
                  /\ UNCHANGED many
    /\ UNCHANGED <<archive, pats, outcome>>

SearchExact ==
    /\ many # Running
    /\ outcome = Running
    /\ outcome' = search_exact_of(many, Len(pats))
    /\ UNCHANGED <<archive, pats, index, results, many>>

SearchIdle ==
    /\ archive = <<>>
    /\ pats = <<>>
    /\ index = 0
    /\ results = <<>>
    /\ many = Running
    /\ outcome = Running

-----------------------------------------------------------------------------
(* The specifications: one per machine, the other machines idle.           *)

InitParse == ParseInit /\ MatchIdle /\ SearchIdle
NextParse ==
    \/ DescriptorParse /\ UNCHANGED <<matchVars, searchVars>>
    \/ MethodDescriptorParse /\ UNCHANGED <<matchVars, searchVars>>
    \/ SignatureParse /\ UNCHANGED <<matchVars, searchVars>>
SpecParse == InitParse /\ [][NextParse]_vars

InitMatch == MatchInit /\ ParseIdle /\ SearchIdle
NextMatch ==
    \/ WithBase /\ UNCHANGED <<parseVars, searchVars>>
    \/ WithImpl /\ UNCHANGED <<parseVars, searchVars>>
    \/ With /\ UNCHANGED <<parseVars, searchVars>>
    \/ CheckClass /\ UNCHANGED <<parseVars, searchVars>>
SpecMatch == InitMatch /\ [][NextMatch]_vars

InitSearch == SearchInit /\ ParseIdle /\ MatchIdle
NextSearch ==
    \/ SearchManyStep /\ UNCHANGED <<parseVars, matchVars>>
    \/ SearchExact /\ UNCHANGED <<parseVars, matchVars>>
SpecSearch == InitSearch /\ [][NextSearch]_vars

-----------------------------------------------------------------------------
(* Properties of the search machine.                                       *)

\* The indices of the pattern array, counted from 0 as the code counts them.
PatIdx == 0..(Len(pats) - 1)

\* How many of the matches name pattern i.
Count(ms, i) == Cardinality({k \in DOMAIN ms : ms[k].pattern = i})

\* The class record search_many parsed from an entry.
ClassOf(entry) == archive[entry.pos].content.val

\* search_exact has returned after a search_many that returned its matches.
ExactDone == outcome # Running /\ many.tag = "Ok"

\* C1: when every pattern i is the recorded match of exactly one candidate,
\* search_exact succeeds with exactly N entries, and the entry at output index
\* i is the candidate recorded for (and matching) pattern i, whatever the order
\* of the candidates in the archive.
C1_ExactResultAligned ==
    (ExactDone /\ \A i \in PatIdx : Count(many.val, i) = 1) =>
        /\ outcome.tag = "Ok"
        /\ Len(outcome.val) = Len(pats)
        /\ \A i \in PatIdx :
               /\ \E k \in DOMAIN many.val :
                      /\ many.val[k].pattern = i
                      /\ outcome.val[i + 1] = many.val[k].entry
               /\ check_class(ClassOf(outcome.val[i + 1]), pats[i + 1])

\* C1 witness: two patterns, each matched once, the candidate of pattern 1
\* ahead of the candidate of pattern 0 in the archive, and search_exact returned.
C1_Witness ==
    /\ ExactDone
    /\ Len(pats) = 2
    /\ Len(many.val) = 2
    /\ many.val[1].pattern = 1
    /\ many.val[2].pattern = 0
    /\ many.val[1].entry.pos < many.val[2].entry.pos
    /\ outcome.tag = "Ok"

\* The smallest pattern index without a recorded match.
MinUnmatched ==
    CHOOSE i \in PatIdx :
        /\ Count(many.val, i) = 0
        /\ \A j \in 0..(i - 1) : Count(many.val, j) # 0

\* C2: with N >= 1 patterns of which some pattern has no recorded match,
\* search_exact returns an error; when no pattern has more than one match the
\* error is PatternNotFound of the smallest unmatched index.
C2_UnmatchedPatternIsError ==
    (ExactDone /\ Len(pats) >= 1 /\ \E i \in PatIdx : Count(many.val, i) = 0) =>
        /\ outcome.tag = "Err"
        /\ (\A j \in PatIdx : Count(many.val, j) <= 1) =>
               outcome = Err(PatternNotFound(MinUnmatched))

\* C3 as stated: every pattern j that is the recorded match of two or more
\* candidates makes search_exact fail with TooManyMatches(j), whatever the
\* other patterns matched.
C3_TooManyMatchesForEveryDuplicate ==
    ExactDone =>
        \A j \in PatIdx :
            Count(many.val, j) >= 2 => outcome = Err(TooManyMatches(j))

\* The smallest pattern index whose number of recorded matches is not one.
FirstIrregular ==
    CHOOSE d \in PatIdx :
        /\ Count(many.val, d) # 1
        /\ \A e \in 0..(d - 1) : Count(many.val, e) = 1

\* C3 as amended: when some pattern is the recorded match of two or more
\* candidates, search_exact fails, and the smallest pattern index d whose
\* number of recorded matches is not one decides the error: TooManyMatches(d)
\* when d has two or more matches, PatternNotFound(d) when d has none.
C3_FirstIrregularDecides ==
    (ExactDone /\ \E j \in PatIdx : Count(many.val, j) >= 2) =>
        outcome = IF Count(many.val, FirstIrregular) >= 2
                  THEN Err(TooManyMatches(FirstIrregular))
                  ELSE Err(PatternNotFound(FirstIrregular))

\* C3 witness: pattern 0 matched once, pattern 1 matched twice, and
\* search_exact returned TooManyMatches(1).
C3_Witness ==
    /\ ExactDone
    /\ Len(pats) = 2
    /\ Count(many.val, 0) = 1
    /\ Count(many.val, 1) = 2
    /\ outcome = Err(TooManyMatches(1))

\* C4: search_many returns its matches only after every class entry of the
\* archive has been fetched, read, parsed and classified; a failure to fetch,
\* read or parse a class entry makes it return an error.
C4_NoPartialSuccess ==
    many.tag = "Ok" =>
        /\ index = Len(archive)
        /\ \A k \in DOMAIN archive :
               archive[k].ext = "class" =>
                   /\ archive[k].by_index = "Ok"
                   /\ archive[k].read = "Ok"
                   /\ archive[k].content.tag = "Some"

\* The candidates search_many has classified so far: the class entries the
\* iterator has passed whose bytes were read and parsed.
Classified ==
    {k \in 1..index :
        /\ archive[k].ext = "class"
        /\ archive[k].read = "Ok"
        /\ archive[k].content.tag = "Some"}

\* C5: every candidate contributes at most one Match; a candidate that
\* satisfies a pattern contributes exactly one, whose pattern is the smallest
\* index it satisfies; a candidate that satisfies none contributes none.
C5_FirstMatchOnly ==
    /\ \A r \in DOMAIN results : results[r].entry.pos \in Classified
    /\ \A k \in Classified :
           LET mine == {r \in DOMAIN results : results[r].entry.pos = k}
               sat == {i \in PatIdx : check_class(archive[k].content.val, pats[i + 1])} IN
           IF sat = {} THEN mine = {}
           ELSE /\ Cardinality(mine) = 1
                /\ \A r \in mine :
                       /\ results[r].pattern \in sat
                       /\ \A i \in sat : results[r].pattern <= i

\* C5 witness: a classified candidate satisfies two patterns and is recorded
\* for the first of them, and another classified candidate satisfies none.
C5_Witness ==
    /\ many.tag = "Ok"
    /\ Len(pats) = 2
    /\ \E k \in Classified :
           /\ check_class(archive[k].content.val, pats[1])
           /\ check_class(archive[k].content.val, pats[2])
           /\ \E r \in DOMAIN results :
                  results[r].entry.pos = k /\ results[r].pattern = 0
    /\ \E k \in Classified :
           \A i \in PatIdx : ~check_class(archive[k].content.val, pats[i + 1])

-----------------------------------------------------------------------------
(* Properties of the match machine.                                        *)

IsMethodPat(m) == m.tag = "Method"
IsFieldPat(m) == m.tag = "Field"

\* The class's methods are exactly the pattern's method patterns and its
\* fields exactly the pattern's field patterns, in the same order, each with
\* the required flags and matching types.
MembersAsDeclared(class, cp) ==
    LET mp == SelectSeq(cp.members, IsMethodPat)
        fp == SelectSeq(cp.members, IsFieldPat) IN
    /\ Len(class.methods) = Len(mp)
    /\ Len(class.fields) = Len(fp)
    /\ \A i \in 1..Len(mp) : check_method(class.methods[i], mp[i])
    /\ \A i \in 1..Len(fp) : check_field(class.fields[i], fp[i])

HeadPasses(class, cp) ==
    /\ check_flags(class, cp)
    /\ check_base(cp.base, class.super_class)
    /\ check_impls(cp.impls, class.interfaces)

\* C6: for a class that passes the flag, base and interface checks,
\* check_class matches exactly when the class's methods and fields are those
\* the pattern declares, in order, with the required flags and matching types;
\* a class with a method or field more, or fewer, does not match.
C6_MembersExact ==
    (matched.tag = "Ran" /\ HeadPasses(cls, pat)) =>
        (matched.result <=> MembersAsDeclared(cls, pat))

\* C6 witness: check_class matched a class of two different methods against a
\* pattern of two member patterns.
C6_Witness ==
    /\ matched.tag = "Ran"
    /\ matched.result
    /\ Len(pat.members) = 2
    /\ Len(cls.methods) = 2
    /\ cls.methods[1] # cls.methods[2]

\* C7: the default ClassPat matches every class record.
C7_DefaultMatchesAnyClass ==
    (matched.tag = "Ran" /\ pat = ClassPat_default) => matched.result

\* The three cases in which the base-class step is said to pass.
BaseCase(base, super_class) ==
    \/ /\ base = None
       /\ super_class = None \/ super_class = Some(JavaLangObject)
    \/ /\ base = Some(Any)
       /\ super_class.tag = "Some"
    \/ /\ base.tag = "Some"
       /\ base.val.tag = "Match"
       /\ base.val.desc.tag = "Object"
       /\ super_class = Some(base.val.desc.name)

\* C11: the base-class step passes exactly when the pattern has no base and
\* the class has no superclass or java/lang/Object, or the base is Any and the
\* class has a superclass, or the base is Match(Object(name)) and the
\* superclass is name; in every other combination check_class does not match,
\* and where the other steps pass check_class matches exactly in these cases.
C11_BaseStepCases ==
    matched.tag = "Ran" =>
        /\ matched.result => BaseCase(pat.base, cls.super_class)
        /\ (/\ check_flags(cls, pat)
            /\ check_impls(pat.impls, cls.interfaces)
            /\ check_members(pat.members, cls.methods, cls.fields)) =>
               (matched.result <=> BaseCase(pat.base, cls.super_class))

\* C11 witness: check_class matched a class whose superclass is the class the
\* pattern names as its base.
C11_Witness ==
    /\ matched.tag = "Ran"
    /\ matched.result
    /\ pat.base = Some(Match(Object(ClassA)))
    /\ cls.super_class = Some(ClassA)

\* The method's descriptor parses and says the method returns nothing.
IsVoidMethod(method) ==
    LET d == MethodDescriptor_parse(method.descriptor) IN
    d.tag = "Ok" /\ d.val.return_type.tag = "None"

\* The method's descriptor parses and says the method returns a type.
ReturnsType(method) ==
    LET d == MethodDescriptor_parse(method.descriptor) IN
    d.tag = "Ok" /\ d.val.return_type.tag = "Some"

\* C12: Void and the wildcard are not interchangeable.  Whenever check_class
\* matches, every method pattern faces a method that is void exactly when the
\* return-type pattern is Void (Any and Match(d) never match a void method,
\* Void never matches a method that returns a type), and no parameter pattern
\* and no field pattern is Void.
C12_VoidIsNotWildcard ==
    (matched.tag = "Ran" /\ matched.result) =>
        LET mp == SelectSeq(pat.members, IsMethodPat)
            fp == SelectSeq(pat.members, IsFieldPat) IN
        /\ Len(mp) <= Len(cls.methods)
        /\ \A i \in 1..Len(mp) :
               /\ mp[i].ret_type = Void => IsVoidMethod(cls.methods[i])
               /\ mp[i].ret_type # Void => ReturnsType(cls.methods[i])
               /\ \A j \in 1..Len(mp[i].param_types) : mp[i].param_types[j] # Void
        /\ \A i \in 1..Len(fp) : fp[i].field_type # Void

\* C12 witness: a class whose only member is a void method of one parameter
\* was checked against the pattern of one method with a wildcard parameter
\* and a wildcard return type, every other step passes, and check_class did
\* not match.
C12_Witness ==
    /\ matched.tag = "Ran"
    /\ ~matched.result
    /\ HeadPasses(cls, pat)
    /\ cls.fields = <<>>
    /\ Len(cls.methods) = 1
    /\ IsVoidMethod(cls.methods[1])
    /\ pat.members = <<Method({}, <<Any>>, Any)>>
    /\ Len(MethodDescriptor_parse(cls.methods[1].descriptor).val.param_types) = 1

-----------------------------------------------------------------------------
(* Properties of the parser machine.                                       *)

ParsedOk(fn) == parsed.tag = "Ran" /\ parsed.fn = fn /\ parsed.res.tag = "Ok"

\* C8: Descriptor::parse returns a descriptor only when the whole text is the
\* encoding of that descriptor: nothing is left over after it.
C8_WholeInputConsumed ==
    ParsedOk("Descriptor::parse") => text = EncodeDescriptor(parsed.res.val)

RECURSIVE NoEmptyName(_)
NoEmptyName(d) ==
    IF d.tag = "Array" THEN NoEmptyName(d.elem)
    ELSE IF d.tag = "Object" THEN Len(d.name) >= 1
    ELSE TRUE

\* C9: no descriptor returned by Descriptor::parse, and no parameter or
\* return type returned by MethodDescriptor::parse, holds an Object with an
\* empty name, at any array nesting depth.
C9_NoEmptyObjectName ==
    /\ ParsedOk("Descriptor::parse") => NoEmptyName(parsed.res.val)
    /\ ParsedOk("MethodDescriptor::parse") =>
           /\ \A i \in DOMAIN parsed.res.val.param_types :
                  NoEmptyName(parsed.res.val.param_types[i])
           /\ parsed.res.val.return_type.tag = "Some" =>
                  NoEmptyName(parsed.res.val.return_type.val)

\* C10: Signature::parse of the encoding of a parametrized signature, whose
\* arguments are any mix of plain descriptors and parametrized signatures,
\* returns that signature: its name and its arguments, in order.
C10_ParametrizedParsed ==
    (parsed.tag = "Ran" /\ parsed.fn = "Signature::parse"
                        /\ origin.tag = "Parametrized") =>
        parsed.res = Ok(origin)

====
